---------------------------- MODULE Spec2Model ----------------------------
(***************************************************************************)
(* Review service of movie_app_microservices: the review repository        *)
(* (PostgresReviewStore and the in-memory MockReviewStore) and the REST     *)
(* handlers of ReviewHandler that drive it (CreateReview,                   *)
(* GetReviewsForMovie), with the Movie and User gRPC facades as the         *)
(* environment.                                                             *)
(***************************************************************************)
EXTENDS Integers, Sequences, FiniteSets, TLC

(***************************************************************************)
(* Bounds of the model                                                     *)
(***************************************************************************)
\* number of CreateReview requests the REST specification handles
NumReq == 2
\* number of distinct review ids the repository-level callers draw from
NumIds == 2
\* the wall clock (time.Now) is read as a value in 0..MaxTime
MaxTime == 2
\* number of direct repository calls in one behaviour
MaxCalls == 3
\* number of direct repository calls in a behaviour with a listing request
MaxRacing == 2
\* clock ticks (nanoseconds) per microsecond: 1000 in the program
TicksPerMicro == 2
\* width of Go's int in bits: 64 in the program
IntBits == 8

(***************************************************************************)
(* Program constants                                                       *)
(***************************************************************************)
\* validate:"required,gte=1,lte=10" on CreateReviewRequest.Rating
MinRating == 1
MaxRating == 10
\* validate:"max=2000" on CreateReviewRequest.Comment
MaxCommentLen == 2000
\* limit <= 0 -> 10, limit > 50 -> 50 in the listing handlers
DefaultPageSize == 10
MaxPageSize == 50

\* HTTP status codes used by the handlers
StatusOK == 200
StatusCreated == 201
StatusBadRequest == 400
StatusNotFound == 404
StatusConflict == 409
StatusInternalServerError == 500

(***************************************************************************)
(* Value universes                                                         *)
(***************************************************************************)
Movies == {"m1", "m2"}
\* the user id CreateReview hardcodes, and another user of the repository
HardcodedUserID == "3aeb2a43"
Users == {HardcodedUserID, "u2"}
ReviewIds == 1..NumIds
Requests == 1..NumReq
Times == 0..MaxTime
\* ratings a repository-level caller stores (valid by the schema)
StoreRatings == {3, 5}
\* comments are modelled by their length in characters: the comment a
\* repository-level caller creates a review with, and the one it updates to
CreateComments == {0}
UpdateComments == {7}

\* error values of the store package and of the handlers' callees
ErrNil == "nil"
ErrReviewNotFound == "review not found"
ErrDuplicateReview == "user has already reviewed this movie"
ErrIDExists == "review with this ID already exists"
ErrUniqueOther == "failed to create review due to unique constraint"
ErrStorage == "failed to create review"

\* domain.Review: the seven persisted fields and the two display fields
Review(id, movie, user, rating, comment, created, updated, username, title) ==
    [id |-> id, movie_id |-> movie, user_id |-> user, rating |-> rating,
     comment |-> comment, created_at |-> created, updated_at |-> updated,
     username |-> username, movie_title |-> title]

\* a row of table reviews: the columns of the INSERT statement
Row(review) ==
    [id |-> review.id, movie_id |-> review.movie_id, user_id |-> review.user_id,
     rating |-> review.rating, comment |-> review.comment,
     created_at |-> review.created_at, updated_at |-> review.updated_at]

\* scanning a row into a domain.Review (db tags): display fields stay zero
RowToReview(row) ==
    Review(row.id, row.movie_id, row.user_id, row.rating, row.comment,
           row.created_at, row.updated_at, "", "")

\* Go map operations on functions with a finite domain
MapPut(f, k, v) == [x \in (DOMAIN f) \cup {k} |-> IF x = k THEN v ELSE f[x]]
MapDel(f, k) == [x \in (DOMAIN f) \ {k} |-> f[x]]
EmptyMap == [x \in {} |-> 0]

\* time.Now(): the clock never runs backwards
NowValues(now) == {t \in Times : t >= now /\ t <= now + 1}

VARIABLES
    backend,        \* which ReviewStore implementation the handler was built with
    pgRows,         \* PostgresReviewStore: the rows of table reviews
    reviews,        \* MockReviewStore.reviews: reviewID -> review
    reviewsByMovie, \* MockReviewStore.reviewsByMovie: movieID -> sequence of reviews
    nextReviewIdx,  \* MockReviewStore.nextReviewIdx: movieID -> set of userIDs
    now,            \* the last value time.Now() returned
    last,           \* the last direct repository call and its result
    calls,          \* number of direct repository calls made so far
    req,            \* the CreateReview requests: request -> handler state
    lst,            \* the listing request: handler state
    agg,            \* the GetMovieAggregatedRating request: handler state
    rd,             \* the last read call on the repository and its result
    movies,         \* movie service: table movies, movie id -> status
    chk,            \* movie service: the last CheckMovieExists call served
    stub            \* the last UpdateReview / DeleteReview request and its answer

vars == <<backend, pgRows, reviews, reviewsByMovie, nextReviewIdx, now, last,
          calls, req, lst, agg, rd, movies, chk, stub>>
storeVars == <<pgRows, reviews, reviewsByMovie, nextReviewIdx>>
movieVars == <<movies, chk>>
readVars == <<agg, rd, movieVars, stub>>


(***************************************************************************)
(* PostgresReviewStore                                                     *)
(***************************************************************************)
\* PgPairTaken as it would be on a table created without uq_user_movie_review
PgPairTakenNoConstraint(rows, row) == FALSE

\* CONSTRAINT uq_user_movie_review UNIQUE (user_id, movie_id) would be broken
PgPairTaken(rows, row) ==
    \E x \in rows : x.user_id = row.user_id /\ x.movie_id = row.movie_id

\* id UUID PRIMARY KEY would be broken
PgIdTaken(rows, row) ==
    \E x \in rows : x.id = row.id

\* The INSERT statement as the database executes it: one atomic statement
\* that either adds the row or fails.  The outcomes are the new table and
\* the constraint the database names ("" when the statement succeeded,
\* "other" for every failure that is no unique violation: lost connection,
\* cancelled context, ...).
PgInsert(rows, row) ==
    {[rows |-> rows, sqlerr |-> "other"]}
    \cup (IF PgPairTaken(rows, row)
          THEN {[rows |-> rows, sqlerr |-> "uq_user_movie_review"]} ELSE {})
    \cup (IF PgIdTaken(rows, row)
          THEN {[rows |-> rows, sqlerr |-> "reviews_pkey"]} ELSE {})
    \cup (IF ~PgPairTaken(rows, row) /\ ~PgIdTaken(rows, row)
          THEN {[rows |-> rows \cup {row}, sqlerr |-> ""]} ELSE {})

\* PgCreateErr as it would be without the test of pqErr.Constraint
PgCreateErrAnyUnique(sqlerr) ==
    CASE sqlerr = "" -> ErrNil
      [] sqlerr \in {"uq_user_movie_review", "reviews_pkey"} -> ErrDuplicateReview
      [] OTHER -> ErrStorage

\* the error PostgresReviewStore.Create returns for the outcome of ExecContext
PgCreateErr(sqlerr) ==
    CASE sqlerr = "" -> ErrNil
      [] sqlerr = "uq_user_movie_review" -> ErrDuplicateReview
      [] sqlerr = "reviews_pkey" -> ErrUniqueOther
      [] OTHER -> ErrStorage

\* A TIMESTAMPTZ column keeps microseconds, time.Now() has nanoseconds: the
\* database rounds the value it is handed to the nearest microsecond.
PgTimestamp(t) == ((2 * t + TicksPerMicro) \div (2 * TicksPerMicro)) * TicksPerMicro

\* the row the INSERT statement stores for the values it is handed
PgRow(review) ==
    [Row(review) EXCEPT !.created_at = PgTimestamp(@), !.updated_at = PgTimestamp(@)]

\* PostgresReviewStore.Create: stamps the caller's review with time.Now()
\* (t), then inserts.  Outcomes: the table, the error, the caller's review.
PgCreate(rows, review, t) ==
    LET stamped == [review EXCEPT !.created_at = t, !.updated_at = t]
    IN  {[rows |-> o.rows, err |-> PgCreateErr(o.sqlerr), sqlerr |-> o.sqlerr,
          review |-> stamped] : o \in PgInsert(rows, PgRow(stamped))}

\* the rows the WHERE clause id = $4 AND user_id = $5 matches
PgOwnedRows(rows, reviewID, userID) ==
    {x \in rows : x.id = reviewID /\ x.user_id = userID}

\* PostgresReviewStore.Update
PgUpdate(rows, review, t) ==
    LET hit == PgOwnedRows(rows, review.id, review.user_id)
        upd(x) == [x EXCEPT !.rating = review.rating, !.comment = review.comment,
                            !.updated_at = PgTimestamp(t)]
    IN  {[rows |-> rows, err |-> ErrStorage]}
        \cup (IF hit = {}
              THEN {[rows |-> rows, err |-> ErrReviewNotFound]}
              ELSE {[rows |-> (rows \ hit) \cup {upd(x) : x \in hit}, err |-> ErrNil]})

\* PostgresReviewStore.Delete
PgDelete(rows, reviewID, userID) ==
    LET hit == PgOwnedRows(rows, reviewID, userID)
    IN  {[rows |-> rows, err |-> ErrStorage]}
        \cup (IF hit = {}
              THEN {[rows |-> rows, err |-> ErrReviewNotFound]}
              ELSE {[rows |-> rows \ hit, err |-> ErrNil]})

(***************************************************************************)
(* MockReviewStore: the three maps as one record                           *)
(***************************************************************************)
MockState(r, bm, idx) == [reviews |-> r, reviewsByMovie |-> bm, nextReviewIdx |-> idx]

\* NewMockReviewStore
NewMockReviewStore == MockState(EmptyMap, EmptyMap, EmptyMap)

\* MockReviewStore.Create: the test of nextReviewIdx for a duplicate is
\* commented out in the source; only the id is tested
MockCreate(m, review) ==
    IF review.id \in DOMAIN m.reviews
    THEN [mock |-> m, err |-> ErrIDExists]
    ELSE LET old == IF review.movie_id \in DOMAIN m.reviewsByMovie
                    THEN m.reviewsByMovie[review.movie_id] ELSE <<>>
             users == IF review.movie_id \in DOMAIN m.nextReviewIdx
                      THEN m.nextReviewIdx[review.movie_id] ELSE {}
         IN  [mock |-> MockState(
                          MapPut(m.reviews, review.id, review),
                          MapPut(m.reviewsByMovie, review.movie_id, Append(old, review)),
                          MapPut(m.nextReviewIdx, review.movie_id,
                                 users \cup {review.user_id})),
              err |-> ErrNil]

\* MockReviewStore.Update
MockUpdate(m, review, t) ==
    IF review.id \notin DOMAIN m.reviews
    THEN [mock |-> m, err |-> ErrReviewNotFound]
    ELSE [mock |-> [m EXCEPT !.reviews =
                       MapPut(m.reviews, review.id, [review EXCEPT !.updated_at = t])],
          err |-> ErrNil]

\* MockReviewStore.Delete
MockDelete(m, reviewID, userID) ==
    IF reviewID \notin DOMAIN m.reviews
    THEN [mock |-> m, err |-> ErrReviewNotFound]
    ELSE LET movieID == m.reviews[reviewID].movie_id
             kept == IF movieID \in DOMAIN m.reviewsByMovie
                     THEN SelectSeq(m.reviewsByMovie[movieID],
                                    LAMBDA rev : rev.id # reviewID)
                     ELSE <<>>
             bm == IF movieID \notin DOMAIN m.reviewsByMovie THEN m.reviewsByMovie
                   ELSE IF Len(kept) > 0 THEN MapPut(m.reviewsByMovie, movieID, kept)
                   ELSE MapDel(m.reviewsByMovie, movieID)
             idx == IF movieID \notin DOMAIN m.nextReviewIdx THEN m.nextReviewIdx
                    ELSE IF m.nextReviewIdx[movieID] \ {userID} = {}
                    THEN MapDel(m.nextReviewIdx, movieID)
                    ELSE MapPut(m.nextReviewIdx, movieID,
                                m.nextReviewIdx[movieID] \ {userID})
         IN  [mock |-> MockState(MapDel(m.reviews, reviewID), bm, idx),
              err |-> ErrNil]

\* the mock's maps as they stand in the state
Mock == MockState(reviews, reviewsByMovie, nextReviewIdx)

\* every review the repository in use holds, as domain.Review values
StoredReviews ==
    IF backend = "postgres" THEN {RowToReview(x) : x \in pgRows}
    ELSE {reviews[i] : i \in DOMAIN reviews}



\* PostgresReviewStore.GetByID
PgGetByID(rows, reviewID) ==
    LET hit == {x \in rows : x.id = reviewID}
    IN  IF hit = {} THEN [found |-> FALSE, review |-> Review(reviewID, "", "", 0, 0, 0, 0, "", "")]
        ELSE [found |-> TRUE, review |-> RowToReview(CHOOSE x \in hit : TRUE)]

\* MockReviewStore.GetByID
MockGetByID(m, reviewID) ==
    IF reviewID \in DOMAIN m.reviews
    THEN [found |-> TRUE, review |-> m.reviews[reviewID]]
    ELSE [found |-> FALSE, review |-> Review(reviewID, "", "", 0, 0, 0, 0, "", "")]

(***************************************************************************)
(* Direct repository calls by a client of the ReviewStore interface        *)
(***************************************************************************)
\* what the caller learns from a repository call; sqlerr is the constraint
\* the database named, for the PostgreSQL implementation
Call(op, id, movie, user, err, sqlerr) ==
    [op |-> op, id |-> id, movie_id |-> movie, user_id |-> user, err |-> err,
     sqlerr |-> sqlerr]

NoCall == Call("none", 0, "", "", ErrNil, "")

\* a review as a client hands it to Create, stamped with its time.Now()
NewReviews(t) ==
    {Review(id, m, u, rt, c, t, t, "", "") :
        id \in ReviewIds, m \in Movies, u \in Users,
        rt \in StoreRatings, c \in CreateComments}

\* a review as a client hands it to Update: the review it fetched by id
\* (a zero review when there is none), with its own user id and the new
\* rating and comment
Edited(fetched, u, rt, c) ==
    [fetched EXCEPT !.user_id = u, !.rating = rt, !.comment = c]

PgCreateCall ==
    /\ backend = "postgres"
    /\ calls < MaxCalls
    /\ \E t \in NowValues(now) : \E review \in NewReviews(t) :
         \E o \in PgCreate(pgRows, review, t) :
            /\ pgRows' = o.rows
            /\ now' = t
            /\ last' = Call("Create", review.id, review.movie_id, review.user_id,
                            o.err, o.sqlerr)
    /\ calls' = calls + 1
    /\ UNCHANGED <<readVars, backend, reviews, reviewsByMovie, nextReviewIdx, req, lst>>

PgUpdateCall ==
    /\ backend = "postgres"
    /\ calls < MaxCalls
    /\ \E t \in NowValues(now) : \E id \in ReviewIds, u \in Users,
          rt \in StoreRatings, c \in UpdateComments :
         LET review == Edited(PgGetByID(pgRows, id).review, u, rt, c)
         IN  \E o \in PgUpdate(pgRows, review, t) :
                /\ pgRows' = o.rows
                /\ now' = t
                /\ last' = Call("Update", id, review.movie_id, u, o.err, "")
    /\ calls' = calls + 1
    /\ UNCHANGED <<readVars, backend, reviews, reviewsByMovie, nextReviewIdx, req, lst>>

PgDeleteCall ==
    /\ backend = "postgres"
    /\ calls < MaxCalls
    /\ \E id \in ReviewIds, u \in Users : \E o \in PgDelete(pgRows, id, u) :
            /\ pgRows' = o.rows
            /\ last' = Call("Delete", id, "", u, o.err, "")
    /\ calls' = calls + 1
    /\ UNCHANGED <<readVars, backend, reviews, reviewsByMovie, nextReviewIdx, now, req, lst>>

SetMock(m) ==
    /\ reviews' = m.reviews
    /\ reviewsByMovie' = m.reviewsByMovie
    /\ nextReviewIdx' = m.nextReviewIdx

MockCreateCall ==
    /\ backend = "mock"
    /\ calls < MaxCalls
    /\ \E t \in NowValues(now) : \E review \in NewReviews(t) :
         LET o == MockCreate(Mock, review)
         IN  /\ SetMock(o.mock)
             /\ now' = t
             /\ last' = Call("Create", review.id, review.movie_id, review.user_id,
                             o.err, "")
    /\ calls' = calls + 1
    /\ UNCHANGED <<readVars, backend, pgRows, req, lst>>

MockUpdateCall ==
    /\ backend = "mock"
    /\ calls < MaxCalls
    /\ \E t \in NowValues(now) : \E id \in ReviewIds, u \in Users,
          rt \in StoreRatings, c \in UpdateComments :
         LET review == Edited(MockGetByID(Mock, id).review, u, rt, c)
             o == MockUpdate(Mock, review, t)
         IN  /\ SetMock(o.mock)
             /\ now' = t
             /\ last' = Call("Update", id, review.movie_id, u, o.err, "")
    /\ calls' = calls + 1
    /\ UNCHANGED <<readVars, backend, pgRows, req, lst>>

MockDeleteCall ==
    /\ backend = "mock"
    /\ calls < MaxCalls
    /\ \E id \in ReviewIds, u \in Users :
         LET o == MockDelete(Mock, id, u)
         IN  /\ SetMock(o.mock)
             /\ last' = Call("Delete", id, "", u, o.err, "")
    /\ calls' = calls + 1
    /\ UNCHANGED <<readVars, backend, pgRows, now, req, lst>>

StoreNext ==
    \/ PgCreateCall
    \/ PgUpdateCall
    \/ PgDeleteCall
    \/ MockCreateCall
    \/ MockUpdateCall
    \/ MockDeleteCall

(***************************************************************************)
(* The Movie and User facades (gRPC clients), as ReviewHandler sees them    *)
(***************************************************************************)
\* what the remote call itself can do: answer, or fail (an error status,
\* the peer unreachable, the 3 s per-call deadline exceeded)
RpcOutcomes == {"true", "false", "failed"}

\* movieServiceGRPCClient.CheckMovieExists: (exists, err)
CheckMovieExists(movieID, rpc) ==
    IF movieID = "" THEN [exists |-> FALSE, err |-> "InvalidArgument"]
    ELSE IF rpc = "failed" THEN [exists |-> FALSE, err |-> "grpc CheckMovieExists failed"]
    ELSE [exists |-> (rpc = "true"), err |-> ErrNil]

\* the user directory and the movie catalogue, for the display fields
UsernameOf(u) == IF u = HardcodedUserID THEN "pguser1" ELSE "user2"
TitleOf(m) == IF m = "m1" THEN "Movie One" ELSE "Movie Two"

\* userServiceGRPCClient.GetUser: (username, err)
GetUser(userID, rpc) ==
    IF userID = "" THEN [username |-> "", err |-> "InvalidArgument"]
    ELSE IF rpc = "failed" THEN [username |-> "", err |-> "grpc GetUser failed"]
    ELSE [username |-> UsernameOf(userID), err |-> ErrNil]

\* movieServiceGRPCClient.GetMovieInfo: (title, err)
GetMovieInfo(movieID, rpc) ==
    IF movieID = "" THEN [title |-> "", err |-> "InvalidArgument"]
    ELSE IF rpc = "failed" THEN [title |-> "", err |-> "grpc GetMovieInfo failed"]
    ELSE [title |-> TitleOf(movieID), err |-> ErrNil]

(***************************************************************************)
(* ReviewHandler.CreateReview                                              *)
(***************************************************************************)
\* the request bodies a client sends: one that json.Decode rejects, and
\* decoded CreateReviewRequest values around the validation bounds
MovieInputs == Movies \cup {"", "not-a-uuid"}
RatingInputs == {MinRating - 1, MinRating, MaxRating, MaxRating + 1}
CommentInputs == {0, MaxCommentLen + 1}

Body(decoded, movie, rating, comment) ==
    [decoded |-> decoded, movie_id |-> movie, rating |-> rating, comment |-> comment]

Bodies ==
    {Body(FALSE, "", 0, 0)}
    \cup {Body(TRUE, m, rt, c) : m \in MovieInputs, rt \in RatingInputs, c \in CommentInputs}

\* the validator tags of CreateReviewRequest
IsUUID(str) == str \in Movies
ValidMovieID(movieID) == movieID # "" /\ IsUUID(movieID)
\* ValidRating as it would be with lte=11
ValidRatingOffByOne(rating) == rating # 0 /\ rating >= MinRating /\ rating <= MaxRating + 1
ValidRating(rating) == rating # 0 /\ rating >= MinRating /\ rating <= MaxRating
ValidComment(comment) == comment <= MaxCommentLen
Validate(body) ==
    ValidMovieID(body.movie_id) /\ ValidRating(body.rating) /\ ValidComment(body.comment)

\* uuid.NewString(): an id no other call returns; request r draws its own,
\* apart from the ids the direct repository callers use
NewUUID(r) == NumIds + r

NoReview == Review(0, "", "", 0, 0, 0, 0, "", "")

\* the state of one request's handler: where it stands, the decoded body,
\* the response (status, review), the calls it made to CheckMovieExists and
\* to store.Create, and what they returned (gate: "true", "false" or
\* "error"; err and sqlerr from store.Create)
Handler(pc, body, status, resp, checks, creates, gate, err, sqlerr) ==
    [pc |-> pc, body |-> body, status |-> status, resp |-> resp,
     checks |-> checks, creates |-> creates, gate |-> gate, err |-> err,
     sqlerr |-> sqlerr]

Idle == Handler("idle", Body(FALSE, "", 0, 0), 0, NoReview, 0, 0, "", "", "")

\* the status CreateReview answers the result of store.Create with
CreateStatus(err) ==
    IF err = ErrNil THEN StatusCreated
    ELSE IF err = ErrDuplicateReview THEN StatusConflict
    ELSE StatusInternalServerError

\* CreateReview after json.Decode and validator.StructCtx
AfterValidate(h, body) ==
    IF ~body.decoded \/ ~Validate(body)
    THEN [h EXCEPT !.pc = "done", !.body = body, !.status = StatusBadRequest]
    ELSE [h EXCEPT !.pc = "gate", !.body = body]

\* CreateReview up to the validation: decode the body, validate it
CreateReceive(r) ==
    /\ req[r].pc = "idle"
    /\ \E body \in Bodies : req' = [req EXCEPT ![r] = AfterValidate(@, body)]
    /\ UNCHANGED <<readVars, backend, storeVars, now, last, calls, lst>>

\* AfterGate as it would be without the test of movieExists
AfterGateIgnoringExists(h, res) ==
    IF res.err # ErrNil
    THEN [h EXCEPT !.pc = "done", !.checks = @ + 1, !.gate = "error",
                   !.status = StatusInternalServerError]
    ELSE [h EXCEPT !.pc = "persist", !.checks = @ + 1,
                   !.gate = IF res.exists THEN "true" ELSE "false"]

\* AfterGate as it would be without the return after the 404 response
AfterGateNoReturn(h, res) ==
    IF res.err # ErrNil
    THEN [h EXCEPT !.pc = "done", !.checks = @ + 1, !.gate = "error",
                   !.status = StatusInternalServerError]
    ELSE IF ~res.exists
    THEN [h EXCEPT !.pc = "persist", !.checks = @ + 1, !.gate = "false",
                   !.status = StatusNotFound]
    ELSE [h EXCEPT !.pc = "persist", !.checks = @ + 1, !.gate = "true"]

\* CreateReview after movieServiceClient.CheckMovieExists returned res
AfterGate(h, res) ==
    IF res.err # ErrNil
    THEN [h EXCEPT !.pc = "done", !.checks = @ + 1, !.gate = "error",
                   !.status = StatusInternalServerError]
    ELSE IF ~res.exists
    THEN [h EXCEPT !.pc = "done", !.checks = @ + 1, !.gate = "false",
                   !.status = StatusNotFound]
    ELSE [h EXCEPT !.pc = "persist", !.checks = @ + 1, !.gate = "true"]

\* CreateReview: the existence gate
CreateGate(r) ==
    /\ req[r].pc = "gate"
    /\ \E rpc \in RpcOutcomes :
         req' = [req EXCEPT ![r] =
                    AfterGate(@, CheckMovieExists(req[r].body.movie_id, rpc))]
    /\ UNCHANGED <<readVars, backend, storeVars, now, last, calls, lst>>

\* BuildReview as it would be if the user id were the caller's: the sender
\* of request 1 being the hardcoded user, of any other request another user
BuildReviewForCaller(r, body, t1, t2) ==
    Review(NewUUID(r), body.movie_id, IF r = 1 THEN HardcodedUserID ELSE "u2",
           body.rating, body.comment, t1, t2, "", "")

\* the review CreateReview builds for request r, its two time.Now() being t1, t2
BuildReview(r, body, t1, t2) ==
    Review(NewUUID(r), body.movie_id, HardcodedUserID, body.rating, body.comment,
           t1, t2, "", "")

\* Answer as it would be if a duplicate were tried again
AnswerRetrying(h, err, sqlerr, review) ==
    IF err = ErrDuplicateReview
    THEN [h EXCEPT !.creates = @ + 1, !.err = err, !.sqlerr = sqlerr]
    ELSE [h EXCEPT !.pc = "done", !.creates = @ + 1, !.err = err, !.sqlerr = sqlerr,
                   !.status = CreateStatus(err),
                   !.resp = IF err = ErrNil THEN review ELSE NoReview]

\* the answer to store.Create's result: the error alone, or 201 with the
\* review the handler holds
Answer(h, err, sqlerr, review) ==
    [h EXCEPT !.pc = "done", !.creates = @ + 1, !.err = err, !.sqlerr = sqlerr,
              !.status = CreateStatus(err),
              !.resp = IF err = ErrNil THEN review ELSE NoReview]

\* CreateReview: store.Create on the PostgreSQL repository, and the response
CreatePersistPg(r) ==
    /\ req[r].pc = "persist"
    /\ backend = "postgres"
    /\ \E t1 \in NowValues(now) : \E t2 \in NowValues(t1) : \E t3 \in NowValues(t2) :
         \E o \in PgCreate(pgRows, BuildReview(r, req[r].body, t1, t2), t3) :
            /\ pgRows' = o.rows
            /\ now' = t3
            /\ req' = [req EXCEPT ![r] = Answer(@, o.err, o.sqlerr, o.review)]
    /\ UNCHANGED <<readVars, backend, reviews, reviewsByMovie, nextReviewIdx, last, calls, lst>>

\* CreateReview: store.Create on the in-memory repository, and the response
CreatePersistMock(r) ==
    /\ req[r].pc = "persist"
    /\ backend = "mock"
    /\ \E t1 \in NowValues(now) : \E t2 \in NowValues(t1) :
         LET review == BuildReview(r, req[r].body, t1, t2)
             o == MockCreate(Mock, review)
         IN  /\ SetMock(o.mock)
             /\ now' = t2
             /\ req' = [req EXCEPT ![r] = Answer(@, o.err, "", review)]
    /\ UNCHANGED <<readVars, backend, pgRows, last, calls, lst>>

\* the steps of request r
CreateSteps(r) ==
    \/ CreateReceive(r)
    \/ CreateGate(r)
    \/ CreatePersistPg(r)
    \/ CreatePersistMock(r)

CreateNext == \E r \in Requests : CreateSteps(r)

(***************************************************************************)
(* Listing: GetReviewsByMovieID of the two repositories                     *)
(***************************************************************************)
Min(a, b) == IF a < b THEN a ELSE b

\* Go's int: two's complement of IntBits bits, arithmetic wraps around
MaxInt == 2 ^ (IntBits - 1) - 1
MinInt == 0 - 2 ^ (IntBits - 1)
WrapInt(x) == ((x - MinInt) % (2 ^ IntBits)) + MinInt

\* ListReviewsParams
Params(page, size, sortBy) == [Page |-> page, PageSize |-> size, SortBy |-> sortBy]

\* ORDER BY: does row a have to come before row b
Precedes(a, b, sortBy) ==
    IF sortBy = "rating_desc"
    THEN a.rating > b.rating \/ (a.rating = b.rating /\ a.created_at > b.created_at)
    ELSE IF sortBy = "rating_asc"
    THEN a.rating < b.rating \/ (a.rating = b.rating /\ a.created_at > b.created_at)
    ELSE a.created_at > b.created_at

\* the orders in which the database may return the rows: rows that ORDER BY
\* does not tell apart come in any order
Orderings(rows, sortBy) ==
    LET n == Cardinality(rows)
    IN  {s \in [1..n -> rows] :
            /\ \A i, j \in 1..n : i # j => s[i] # s[j]
            /\ \A i, j \in 1..n : i < j => ~Precedes(s[j], s[i], sortBy)}

\* LIMIT limit OFFSET offset
LimitOffset(s, limit, offset) ==
    IF offset >= Len(s) THEN <<>>
    ELSE SubSeq(s, offset + 1, Min(offset + limit, Len(s)))

\* the count query of PostgresReviewStore.GetReviewsByMovieID
PgCountByMovie(rows, movieID) ==
    Cardinality({x \in rows : x.movie_id = movieID})

\* the select query of PostgresReviewStore.GetReviewsByMovieID: the pages
\* the database may return
PgSelectByMovie(rows, movieID, params) ==
    LET offset == WrapInt((params.Page - 1) * params.PageSize)
    IN  IF offset < 0 THEN {}   \* the database rejects a negative OFFSET
        ELSE {[i \in DOMAIN pg |-> RowToReview(pg[i])] :
                pg \in {LimitOffset(s, params.PageSize, offset) :
                          s \in Orderings({x \in rows : x.movie_id = movieID},
                                          params.SortBy)}}

\* MockReviewStore.GetReviewsByMovieID: (reviews, totalCount), or the
\* run-time panic of the slice expression reviewsCopy[start:end] when end
\* is below start
MockGetReviewsByMovieID(m, movieID, params) ==
    IF movieID \notin DOMAIN m.reviewsByMovie \/ Len(m.reviewsByMovie[movieID]) = 0
    THEN [reviews |-> <<>>, total |-> 0, panic |-> FALSE]
    ELSE LET all == m.reviewsByMovie[movieID]
             totalCount == Len(all)
             start0 == WrapInt((params.Page - 1) * params.PageSize)
             end0 == WrapInt(start0 + params.PageSize)
             start == IF start0 < 0 THEN 0 ELSE start0
             end == IF end0 > totalCount THEN totalCount ELSE end0
         IN  IF start >= totalCount
             THEN [reviews |-> <<>>, total |-> totalCount, panic |-> FALSE]
             ELSE IF end < start
             THEN [reviews |-> <<>>, total |-> 0, panic |-> TRUE]
             ELSE [reviews |-> SubSeq(all, start + 1, end), total |-> totalCount,
                   panic |-> FALSE]

(***************************************************************************)
(* ReviewHandler.GetReviewsForMovie                                        *)
(***************************************************************************)
\* a query value: absent or not a number (strconv.Atoi fails), or the
\* number its digits denote
Query(isNum, n) == [num |-> isNum, n |-> n]
\* strconv.Atoi with the error dropped: 0 for no number, the nearest int for
\* a number out of range
Atoi(q) ==
    IF ~q.num THEN 0
    ELSE IF q.n > MaxInt THEN MaxInt
    ELSE IF q.n < MinInt THEN MinInt
    ELSE q.n

PageInputs == {Query(FALSE, 0), Query(TRUE, 2)}
LimitInputs == {Query(FALSE, 0), Query(TRUE, 1)}
SortInputs == {"", "rating_desc", "rating_asc"}

\* LimitOf as it would be without the upper bound on the page size
LimitOfUnbounded(q) == IF Atoi(q) <= 0 THEN DefaultPageSize ELSE Atoi(q)

\* page <= 0 -> 1
PageOf(q) == IF Atoi(q) <= 0 THEN 1 ELSE Atoi(q)
\* limit <= 0 -> 10, limit > 50 -> 50
LimitOf(q) ==
    IF Atoi(q) <= 0 THEN DefaultPageSize
    ELSE IF Atoi(q) > MaxPageSize THEN MaxPageSize ELSE Atoi(q)

\* queryParams, as far as the handler reads them: the page and limit values
QueryParams(page, limit) == [page |-> page, limit |-> limit]
NoQuery == QueryParams(Query(FALSE, 0), Query(FALSE, 0))

\* the state of the listing request's handler: the page the repository
\* returned (rows, total), the enriched copies appended so far (out), and
\* for each of them whether the User and the Movie lookup failed
Listing(pc, movie, params, total, rows, out, userFailed, movieFailed, status) ==
    [pc |-> pc, movie |-> movie, params |-> params, total |-> total, rows |-> rows,
     out |-> out, userFailed |-> userFailed, movieFailed |-> movieFailed,
     status |-> status, query |-> NoQuery]

NoListing == Listing("idle", "", Params(0, 0, ""), 0, <<>>, <<>>, <<>>, <<>>, 0)

\* the requests a client sends: the path variable and the query, parsed
MovieListRequest(m, p, l, sb) ==
    [movie |-> m, query |-> QueryParams(p, l),
     params |-> Params(PageOf(p), LimitOf(l), sb)]
ListRequests ==
    {MovieListRequest(m, p, l, sb) :
        m \in Movies, p \in PageInputs, l \in LimitInputs, sb \in SortInputs}

\* GetReviewsForMovie up to store.GetReviewsByMovieID on the in-memory
\* repository (one critical section)
ListFetchMockOf(q) ==
    /\ lst.pc = "idle"
    /\ backend = "mock"
    /\ LET res == MockGetReviewsByMovieID(Mock, q.movie, q.params)
       IN  lst' = [lst EXCEPT !.pc = IF res.panic THEN "panic" ELSE "enrich",
                              !.movie = q.movie, !.params = q.params, !.query = q.query,
                              !.rows = res.reviews, !.total = res.total]
    /\ UNCHANGED <<readVars, backend, storeVars, now, last, calls, req>>

ListFetchMock == \E q \in ListRequests : ListFetchMockOf(q)

\* GetReviewsForMovie up to the count query of store.GetReviewsByMovieID on
\* PostgreSQL
ListCountPgOf(q) ==
    /\ lst.pc = "idle"
    /\ backend = "postgres"
    /\ \/ lst' = [lst EXCEPT !.pc = "done", !.movie = q.movie, !.params = q.params, !.query = q.query,
                             !.status = StatusInternalServerError]
       \/ LET n == PgCountByMovie(pgRows, q.movie)
          IN  lst' = [lst EXCEPT !.pc = IF n = 0 THEN "enrich" ELSE "select",
                                 !.movie = q.movie, !.params = q.params, !.query = q.query,
                                 !.total = n]
    /\ UNCHANGED <<readVars, backend, storeVars, now, last, calls, req>>

ListCountPg == \E q \in ListRequests : ListCountPgOf(q)

\* store.GetReviewsByMovieID on PostgreSQL: the select query
ListSelectPg ==
    /\ lst.pc = "select"
    /\ backend = "postgres"
    /\ \/ lst' = [lst EXCEPT !.pc = "done", !.total = 0,
                             !.status = StatusInternalServerError]
       \/ \E pg \in PgSelectByMovie(pgRows, lst.movie, lst.params) :
            lst' = [lst EXCEPT !.pc = "enrich", !.rows = pg]
    /\ UNCHANGED <<readVars, backend, storeVars, now, last, calls, req>>

\* AfterEnrichment as it would be if the loop assigned the display fields
\* through the pointer rev and the repository had returned its own review
AfterEnrichmentInPlace(m, rev, enrichedRev) ==
    IF rev.id \in DOMAIN m.reviews
    THEN [m EXCEPT !.reviews = MapPut(m.reviews, rev.id, enrichedRev)]
    ELSE m

\* the in-memory repository after one round of the enrichment loop:
\* enrichedRev := *rev is a copy (of what is already the repository's copy),
\* and the display fields are assigned to it alone
AfterEnrichment(m, rev, enrichedRev) == m

\* one round of the enrichment loop: GetUser, then GetMovieInfo, then append
Enrich(rev, userRpc, movieRpc) ==
    LET userInfo == GetUser(rev.user_id, userRpc)
        movieInfo == GetMovieInfo(rev.movie_id, movieRpc)
        withUser == IF userInfo.err # ErrNil THEN rev
                    ELSE [rev EXCEPT !.username = userInfo.username]
    IN  IF movieInfo.err # ErrNil THEN withUser
        ELSE [withUser EXCEPT !.movie_title = movieInfo.title]

\* EnrichStep as it would be if a failed GetUser ended the request, as a
\* failed CheckMovieExists ends CreateReview
EnrichStepFatal(l, userRpc, movieRpc) ==
    LET rev == l.rows[Len(l.out) + 1]
    IN  IF GetUser(rev.user_id, userRpc).err # ErrNil
        THEN [l EXCEPT !.pc = "done", !.status = StatusInternalServerError,
                       !.userFailed = Append(@, TRUE)]
        ELSE [l EXCEPT
                !.out = Append(@, Enrich(rev, userRpc, movieRpc)),
                !.userFailed = Append(@, FALSE),
                !.movieFailed = Append(@, GetMovieInfo(rev.movie_id, movieRpc).err # ErrNil)]

\* one round of the loop on the handler's state: the lookups may fail, the
\* copy is appended all the same
EnrichStep(l, userRpc, movieRpc) ==
    LET rev == l.rows[Len(l.out) + 1]
    IN  [l EXCEPT
            !.out = Append(@, Enrich(rev, userRpc, movieRpc)),
            !.userFailed = Append(@, GetUser(rev.user_id, userRpc).err # ErrNil),
            !.movieFailed = Append(@, GetMovieInfo(rev.movie_id, movieRpc).err # ErrNil)]

ListEnrich ==
    /\ lst.pc = "enrich"
    /\ Len(lst.out) < Len(lst.rows)
    /\ \E userRpc, movieRpc \in {"true", "failed"} :
         LET rev == lst.rows[Len(lst.out) + 1]
         IN  /\ lst' = EnrichStep(lst, userRpc, movieRpc)
             /\ SetMock(AfterEnrichment(Mock, rev, Enrich(rev, userRpc, movieRpc)))
    /\ UNCHANGED <<readVars, backend, pgRows, now, last, calls, req>>

\* the response: the enriched reviews, totalCount, page, page size
ListRespond ==
    /\ lst.pc = "enrich"
    /\ Len(lst.out) = Len(lst.rows)
    /\ lst' = [lst EXCEPT !.pc = "done", !.status = StatusOK]
    /\ UNCHANGED <<readVars, backend, storeVars, now, last, calls, req>>

ListNext ==
    \/ ListFetchMock
    \/ ListCountPg
    \/ ListSelectPg
    \/ ListEnrich
    \/ ListRespond

(***************************************************************************)
(* Listing: GetReviewsByUserID of the two repositories                      *)
(***************************************************************************)
\* ORDER BY of PostgresReviewStore.GetReviewsByUserID: only rating_desc is
\* told apart, every other sort key orders by created_at DESC
PrecedesByUser(a, b, sortBy) ==
    IF sortBy = "rating_desc"
    THEN a.rating > b.rating \/ (a.rating = b.rating /\ a.created_at > b.created_at)
    ELSE a.created_at > b.created_at

OrderingsByUser(rows, sortBy) ==
    LET n == Cardinality(rows)
    IN  {s \in [1..n -> rows] :
            /\ \A i, j \in 1..n : i # j => s[i] # s[j]
            /\ \A i, j \in 1..n : i < j => ~PrecedesByUser(s[j], s[i], sortBy)}

\* the count query of PostgresReviewStore.GetReviewsByUserID
PgCountByUser(rows, userID) ==
    Cardinality({x \in rows : x.user_id = userID})

\* the select query of PostgresReviewStore.GetReviewsByUserID
PgSelectByUser(rows, userID, params) ==
    LET offset == WrapInt((params.Page - 1) * params.PageSize)
    IN  IF offset < 0 THEN {}   \* the database rejects a negative OFFSET
        ELSE {[i \in DOMAIN pg |-> RowToReview(pg[i])] :
                pg \in {LimitOffset(s, params.PageSize, offset) :
                          s \in OrderingsByUser({x \in rows : x.user_id = userID},
                                                params.SortBy)}}

\* the orders in which range walks a Go map: any
MapOrders(S) ==
    LET n == Cardinality(S)
    IN  {s \in [1..n -> S] : \A i, j \in 1..n : i # j => s[i] # s[j]}

\* MockReviewStore.GetReviewsByUserID: every review of the user, in the
\* order the map was walked; params is not used
MockGetReviewsByUserID(m, userID, params) ==
    LET mine == {i \in DOMAIN m.reviews : m.reviews[i].user_id = userID}
    IN  {[reviews |-> [k \in DOMAIN o |-> m.reviews[o[k]]], total |-> Cardinality(mine)] :
            o \in MapOrders(mine)}

(***************************************************************************)
(* ReviewHandler.GetReviewsByUserID                                        *)
(***************************************************************************)
\* the state of the handler: the answer of GetUser for the target user
\* (lookup, username), the page the repository returned, the copies
\* appended so far and for each whether GetMovieInfo failed
UserListing(pc, user, lookup, username, params, total, rows, out, movieFailed, status) ==
    [kind |-> "user", pc |-> pc, user |-> user, lookup |-> lookup,
     username |-> username, params |-> params, total |-> total, rows |-> rows,
     out |-> out, movieFailed |-> movieFailed, status |-> status,
     query |-> NoQuery]

UserListRequest(u, p, l, sb) ==
    [user |-> u, query |-> QueryParams(p, l),
     params |-> Params(PageOf(p), LimitOf(l), sb)]
UserListRequests ==
    {UserListRequest(u, p, l, sb) :
        u \in Users, p \in PageInputs, l \in LimitInputs, sb \in SortInputs}

\* the handler after GetUser failed for the target user: 404, return
UserNotFound(q) ==
    UserListing("done", q.user, "failed", "", Params(0, 0, ""), 0, <<>>, <<>>, <<>>,
                StatusNotFound)

\* the handler after GetUser answered, before the repository is called
UserFound(q) ==
    [UserListing("userfetch", q.user, "ok", GetUser(q.user, "true").username, q.params,
                 0, <<>>, <<>>, <<>>, 0) EXCEPT !.query = q.query]

\* GetReviewsByUserID up to store.GetReviewsByUserID on the in-memory
\* repository
UserListFetchMockOf(q) ==
    /\ lst.pc = "idle"
    /\ backend = "mock"
    /\ \E userRpc \in {"true", "failed"} :
         IF GetUser(q.user, userRpc).err # ErrNil
         THEN lst' = UserNotFound(q)
         ELSE \E res \in MockGetReviewsByUserID(Mock, q.user, q.params) :
                lst' = [UserFound(q) EXCEPT !.pc = "userenrich", !.rows = res.reviews,
                                            !.total = res.total]
    /\ UNCHANGED <<readVars, backend, storeVars, now, last, calls, req>>

UserListFetchMock == \E q \in UserListRequests : UserListFetchMockOf(q)

\* GetReviewsByUserID up to the count query on PostgreSQL
UserListCountPgOf(q) ==
    /\ lst.pc = "idle"
    /\ backend = "postgres"
    /\ \E userRpc \in {"true", "failed"} :
         IF GetUser(q.user, userRpc).err # ErrNil
         THEN lst' = UserNotFound(q)
         ELSE \/ lst' = [UserFound(q) EXCEPT !.pc = "done",
                                             !.status = StatusInternalServerError]
              \/ LET n == PgCountByUser(pgRows, q.user)
                 IN  lst' = [UserFound(q) EXCEPT
                                !.pc = IF n = 0 THEN "userenrich" ELSE "userselect",
                                !.total = n]
    /\ UNCHANGED <<readVars, backend, storeVars, now, last, calls, req>>

UserListCountPg == \E q \in UserListRequests : UserListCountPgOf(q)

\* store.GetReviewsByUserID on PostgreSQL: the select query
UserListSelectPg ==
    /\ lst.pc = "userselect"
    /\ backend = "postgres"
    /\ \/ lst' = [lst EXCEPT !.pc = "done", !.total = 0,
                             !.status = StatusInternalServerError]
       \/ \E pg \in PgSelectByUser(pgRows, lst.user, lst.params) :
            lst' = [lst EXCEPT !.pc = "userenrich", !.rows = pg]
    /\ UNCHANGED <<readVars, backend, storeVars, now, last, calls, req>>

\* UserEnrichStep as it would be if the copies were collected in the order
\* the lookups complete (last issued first), not in the order of the page
UserEnrichStepUnordered(l, movieRpc) ==
    LET rev == l.rows[Len(l.out) + 1]
        movieInfo == GetMovieInfo(rev.movie_id, movieRpc)
        withUser == [rev EXCEPT !.username = l.username]
        enrichedRev == IF movieInfo.err # ErrNil THEN withUser
                       ELSE [withUser EXCEPT !.movie_title = movieInfo.title]
    IN  [l EXCEPT !.out = <<enrichedRev>> \o @,
                  !.movieFailed = <<movieInfo.err # ErrNil>> \o @]

\* one round of the enrichment loop: the username of the target user, then
\* GetMovieInfo, then append
UserEnrichStep(l, movieRpc) ==
    LET rev == l.rows[Len(l.out) + 1]
        movieInfo == GetMovieInfo(rev.movie_id, movieRpc)
        withUser == [rev EXCEPT !.username = l.username]
        enrichedRev == IF movieInfo.err # ErrNil THEN withUser
                       ELSE [withUser EXCEPT !.movie_title = movieInfo.title]
    IN  [l EXCEPT !.out = Append(@, enrichedRev),
                  !.movieFailed = Append(@, movieInfo.err # ErrNil)]

UserListEnrich ==
    /\ lst.pc = "userenrich"
    /\ Len(lst.out) < Len(lst.rows)
    /\ \E movieRpc \in {"true", "failed"} :
         LET rev == lst.rows[Len(lst.out) + 1]
             enriched == UserEnrichStep(lst, movieRpc)
         IN  /\ lst' = enriched
             /\ SetMock(AfterEnrichment(Mock, rev, enriched.out[Len(enriched.out)]))
    /\ UNCHANGED <<readVars, backend, pgRows, now, last, calls, req>>

\* the response: the enriched reviews, totalCount, page, page size
UserListRespond ==
    /\ lst.pc = "userenrich"
    /\ Len(lst.out) = Len(lst.rows)
    /\ lst' = [lst EXCEPT !.pc = "done", !.status = StatusOK]
    /\ UNCHANGED <<readVars, backend, storeVars, now, last, calls, req>>

UserListNext ==
    \/ UserListFetchMock
    \/ UserListCountPg
    \/ UserListSelectPg
    \/ UserListEnrich
    \/ UserListRespond

(***************************************************************************)
(* The read operations of the two repositories, as one call each            *)
(***************************************************************************)
ErrListStorage == "failed to list reviews"
ErrNegativeOffset == "OFFSET must not be negative"
ErrAggregateStorage == "failed to get aggregated rating"

\* what a read call returns: (reviews, totalCount, err) of a listing, or
\* the AggregatedRating and err; panic when the call never returned
ReadResult(revs, total, average, err, panic) ==
    [reviews |-> revs, total |-> total, average |-> average, err |-> err,
     panic |-> panic]

\* PostgresReviewStore.GetReviewsByMovieID: the count query, then the select
\* query; either may fail
PgGetReviewsByMovieID(rows, movieID, params) ==
    LET n == PgCountByMovie(rows, movieID)
        offset == WrapInt((params.Page - 1) * params.PageSize)
    IN  {ReadResult(<<>>, 0, 0, ErrListStorage, FALSE)}
        \cup (IF n = 0 THEN {ReadResult(<<>>, 0, 0, ErrNil, FALSE)}
              ELSE IF offset < 0 THEN {ReadResult(<<>>, 0, 0, ErrNegativeOffset, FALSE)}
              ELSE {ReadResult(pg, n, 0, ErrNil, FALSE) :
                        pg \in PgSelectByMovie(rows, movieID, params)})

\* PostgresReviewStore.GetReviewsByUserID
PgGetReviewsByUserID(rows, userID, params) ==
    LET n == PgCountByUser(rows, userID)
        offset == WrapInt((params.Page - 1) * params.PageSize)
    IN  {ReadResult(<<>>, 0, 0, ErrListStorage, FALSE)}
        \cup (IF n = 0 THEN {ReadResult(<<>>, 0, 0, ErrNil, FALSE)}
              ELSE IF offset < 0 THEN {ReadResult(<<>>, 0, 0, ErrNegativeOffset, FALSE)}
              ELSE {ReadResult(pg, n, 0, ErrNil, FALSE) :
                        pg \in PgSelectByUser(rows, userID, params)})

\* float64 values that are quotients of two integers, kept as fractions in
\* lowest terms; 0 is 0/1
RECURSIVE Gcd(_, _)
Gcd(a, b) == IF b = 0 THEN a ELSE Gcd(b, a % b)
Quotient(sum, count) ==
    IF sum = 0 THEN [num |-> 0, den |-> 1]
    ELSE [num |-> sum \div Gcd(sum, count), den |-> count \div Gcd(sum, count)]

RECURSIVE SumRatings(_)
SumRatings(S) ==
    IF S = {} THEN 0
    ELSE LET x == CHOOSE y \in S : TRUE IN x.rating + SumRatings(S \ {x})

RECURSIVE SumSeqRatings(_)
SumSeqRatings(seq) ==
    IF Len(seq) = 0 THEN 0 ELSE Head(seq).rating + SumSeqRatings(Tail(seq))

\* PostgresReviewStore.GetAggregatedRatingByMovieID:
\* SELECT COALESCE(AVG(rating), 0), COUNT(rating) ... WHERE movie_id = $1
PgGetAggregatedRatingByMovieID(rows, movieID) ==
    LET hit == {x \in rows : x.movie_id = movieID}
        n == Cardinality(hit)
    IN  {ReadResult(<<>>, 0, Quotient(0, 1), ErrAggregateStorage, FALSE),
         ReadResult(<<>>, n, IF n = 0 THEN Quotient(0, 1) ELSE Quotient(SumRatings(hit), n),
                    ErrNil, FALSE)}

\* MockReviewStore.GetAggregatedRatingByMovieID: over reviewsByMovie
MockGetAggregatedRatingByMovieID(m, movieID) ==
    IF movieID \notin DOMAIN m.reviewsByMovie \/ Len(m.reviewsByMovie[movieID]) = 0
    THEN ReadResult(<<>>, 0, Quotient(0, 1), ErrNil, FALSE)
    ELSE LET movieReviews == m.reviewsByMovie[movieID]
             sumRating == SumSeqRatings(movieReviews)
             ratingCount == Len(movieReviews)
         IN  ReadResult(<<>>, ratingCount, Quotient(sumRating, ratingCount), ErrNil, FALSE)

\* the parameters a client of the repository lists with
ReadPages == {1, 2, MaxInt}
ReadSizes == {1, 2}
ReadParams ==
    {Params(pg, sz, sb) : pg \in ReadPages, sz \in ReadSizes, sb \in SortInputs}

\* the last read call: the operation, its key (movie or user), its
\* parameters, its result
Read(op, key, params, res) == [op |-> op, key |-> key, params |-> params, res |-> res]
NoRead == Read("none", "", Params(0, 0, ""), ReadResult(<<>>, 0, Quotient(0, 1), ErrNil, FALSE))

PgListByMovieCall ==
    /\ backend = "postgres"
    /\ \E m \in Movies, params \in ReadParams :
         \E res \in PgGetReviewsByMovieID(pgRows, m, params) :
            rd' = Read("ListByMovie", m, params, res)
    /\ UNCHANGED <<agg, movieVars, stub, backend, storeVars, now, last, calls, req, lst>>

PgListByUserCall ==
    /\ backend = "postgres"
    /\ \E u \in Users, params \in ReadParams :
         \E res \in PgGetReviewsByUserID(pgRows, u, params) :
            rd' = Read("ListByUser", u, params, res)
    /\ UNCHANGED <<agg, movieVars, stub, backend, storeVars, now, last, calls, req, lst>>

PgAggregateCall ==
    /\ backend = "postgres"
    /\ \E m \in Movies : \E res \in PgGetAggregatedRatingByMovieID(pgRows, m) :
            rd' = Read("Aggregate", m, Params(0, 0, ""), res)
    /\ UNCHANGED <<agg, movieVars, stub, backend, storeVars, now, last, calls, req, lst>>

MockListByMovieCall ==
    /\ backend = "mock"
    /\ \E m \in Movies, params \in ReadParams :
         LET o == MockGetReviewsByMovieID(Mock, m, params)
         IN  rd' = Read("ListByMovie", m, params,
                        ReadResult(o.reviews, o.total, 0, ErrNil, o.panic))
    /\ UNCHANGED <<agg, movieVars, stub, backend, storeVars, now, last, calls, req, lst>>

MockListByUserCall ==
    /\ backend = "mock"
    /\ \E u \in Users, params \in ReadParams :
         \E o \in MockGetReviewsByUserID(Mock, u, params) :
            rd' = Read("ListByUser", u, params,
                       ReadResult(o.reviews, o.total, 0, ErrNil, FALSE))
    /\ UNCHANGED <<agg, movieVars, stub, backend, storeVars, now, last, calls, req, lst>>

MockAggregateCall ==
    /\ backend = "mock"
    /\ \E m \in Movies :
         rd' = Read("Aggregate", m, Params(0, 0, ""),
                    MockGetAggregatedRatingByMovieID(Mock, m))
    /\ UNCHANGED <<agg, movieVars, stub, backend, storeVars, now, last, calls, req, lst>>

ReadNext ==
    \/ PgListByMovieCall
    \/ PgListByUserCall
    \/ PgAggregateCall
    \/ MockListByMovieCall
    \/ MockListByUserCall
    \/ MockAggregateCall

(***************************************************************************)
(* The listing requests over the whole range of page and limit values       *)
(***************************************************************************)
\* what a client can put in ?page= and ?limit=: nothing or text that is no
\* number, and numbers below, at and above every threshold of the parsing,
\* the ends of Go's int and the decimal strings beyond them included
WideQueries ==
    {Query(FALSE, 0)}
    \cup {Query(TRUE, n) : n \in {MinInt - 1, MinInt, -1, 0, 1, DefaultPageSize,
                                  MaxPageSize, MaxPageSize + 1, MaxInt, MaxInt + 1}}

\* the values of ?page=: as above around zero and at the ends of the int;
\* between them the small pages, whose offsets fit the scaled int as the
\* offsets of all but the last pages fit the 64-bit one
WidePages ==
    {Query(FALSE, 0)}
    \cup {Query(TRUE, n) : n \in {MinInt - 1, MinInt, -1, 0, 1, 2, MaxInt, MaxInt + 1}}

WideListRequests ==
    {MovieListRequest(m, p, l, "") : m \in Movies, p \in WidePages, l \in WideQueries}
WideUserListRequests ==
    {UserListRequest(u, p, l, "") : u \in Users, p \in WidePages, l \in WideQueries}

WideListFetchMock == \E q \in WideListRequests : ListFetchMockOf(q)
WideListCountPg == \E q \in WideListRequests : ListCountPgOf(q)
WideUserListFetchMock == \E q \in WideUserListRequests : UserListFetchMockOf(q)
WideUserListCountPg == \E q \in WideUserListRequests : UserListCountPgOf(q)

(***************************************************************************)
(* The movie service behind the Movie facade: its store and the             *)
(* CheckMovieExists method of its gRPC server                               *)
(***************************************************************************)
\* domain.MovieStatus
StatusPendingApproval == "pending_approval"
StatusApproved == "approved"
StatusRejected == "rejected"
MovieStatuses == {StatusPendingApproval, StatusApproved, StatusRejected}

ErrMovieNotFound == "movie not found"
ErrMovieStorage == "failed to get movie by ID"

\* MovieStore.GetByID: the movie's status when a row has the id,
\* ErrMovieNotFound when none has, another error when the query fails
MovieGetByID(table, id, queryFails) ==
    IF queryFails THEN [status |-> "", err |-> ErrMovieStorage]
    ELSE IF id \in DOMAIN table THEN [status |-> table[id], err |-> ErrNil]
    ELSE [status |-> "", err |-> ErrMovieNotFound]

\* the response of the gRPC method: exists, or a status code
CheckResponse(exists, code) == [exists |-> exists, code |-> code]

\* ServerCheckMovieExists as it would be if only approved movies counted
ServerCheckMovieExistsApprovedOnly(table, id, queryFails) ==
    IF id = "" THEN CheckResponse(FALSE, "InvalidArgument")
    ELSE LET got == MovieGetByID(table, id, queryFails)
         IN  IF got.err = ErrMovieNotFound THEN CheckResponse(FALSE, "OK")
             ELSE IF got.err # ErrNil THEN CheckResponse(FALSE, "Internal")
             ELSE CheckResponse(got.status = StatusApproved, "OK")

\* Server.CheckMovieExists of the movie service
ServerCheckMovieExists(table, id, queryFails) ==
    IF id = "" THEN CheckResponse(FALSE, "InvalidArgument")
    ELSE LET got == MovieGetByID(table, id, queryFails)
         IN  IF got.err = ErrMovieNotFound THEN CheckResponse(FALSE, "OK")
             ELSE IF got.err # ErrNil THEN CheckResponse(FALSE, "Internal")
             ELSE CheckResponse(TRUE, "OK")

\* what the client's call returns for the server's response, or when the
\* call itself fails (peer unreachable, deadline exceeded)
RpcOutcomeOf(resp, delivered) ==
    IF ~delivered \/ resp.code # "OK" THEN "failed"
    ELSE IF resp.exists THEN "true" ELSE "false"

\* the last call served: the id asked for, what table movies held for it
\* then ("absent" when no row), whether the query failed, the response
Check(id, stored, queryFails, resp) ==
    [id |-> id, stored |-> stored, queryFails |-> queryFails, resp |-> resp,
     served |-> TRUE]
NoCheck == [Check("", "absent", FALSE, CheckResponse(FALSE, "")) EXCEPT !.served = FALSE]

StoredAs(table, id) == IF id \in DOMAIN table THEN table[id] ELSE "absent"

\* MovieStore.Create: a submitted movie is stored pending approval
MovieCreate ==
    /\ \E id \in Movies \ DOMAIN movies :
         movies' = MapPut(movies, id, StatusPendingApproval)
    /\ UNCHANGED <<chk, agg, rd, stub, backend, storeVars, now, last, calls, req, lst>>

\* MovieStore.UpdateStatus
MovieUpdateStatus ==
    /\ \E id \in DOMAIN movies, st \in MovieStatuses :
         /\ movies[id] # st
         /\ movies' = MapPut(movies, id, st)
    /\ UNCHANGED <<chk, agg, rd, stub, backend, storeVars, now, last, calls, req, lst>>

\* a CheckMovieExists call of any client of the movie service
CheckMovieExistsCall ==
    /\ \E id \in Movies \cup {""}, queryFails \in BOOLEAN :
         chk' = Check(id, StoredAs(movies, id), queryFails,
                      ServerCheckMovieExists(movies, id, queryFails))
    /\ UNCHANGED <<movies, agg, rd, stub, backend, storeVars, now, last, calls, req, lst>>

\* CreateReview: the existence gate, with the movie service answering
CreateGateServed(r) ==
    /\ req[r].pc = "gate"
    /\ \E queryFails, delivered \in BOOLEAN :
         LET id == req[r].body.movie_id
             resp == ServerCheckMovieExists(movies, id, queryFails)
         IN  /\ chk' = IF id = "" THEN chk
                       ELSE Check(id, StoredAs(movies, id), queryFails, resp)
             /\ req' = [req EXCEPT ![r] =
                          AfterGate(@, CheckMovieExists(id, RpcOutcomeOf(resp, delivered)))]
    /\ UNCHANGED <<movies, agg, rd, stub, backend, storeVars, now, last, calls, lst>>

MovieServiceNext ==
    \/ MovieCreate
    \/ MovieUpdateStatus
    \/ CheckMovieExistsCall

(***************************************************************************)
(* ReviewHandler.UpdateReview and ReviewHandler.DeleteReview                *)
(***************************************************************************)
StatusNotImplemented == 501

\* the repository as a handler has it in h.store
Repo(rows, m) == [pg |-> rows, mock |-> m]

\* what a handler did: its answer, its calls to the repository, and the
\* repository after it
Handled(op, id, status, storeCalls, repo) ==
    [op |-> op, id |-> id, status |-> status, storeCalls |-> storeCalls, repo |-> repo]

\* what is kept of a request once it is answered
StubAnswer(h) == [op |-> h.op, id |-> h.id, status |-> h.status, storeCalls |-> h.storeCalls]
NoStub == StubAnswer(Handled("none", 0, 0, 0, Repo({}, NewMockReviewStore)))

\* DeleteReview as it would be if it deleted the caller's review
DeleteReviewWired(repo, reviewID) ==
    Handled("DeleteReview", reviewID, StatusOK, 1,
            Repo(repo.pg \ PgOwnedRows(repo.pg, reviewID, HardcodedUserID),
                 MockDelete(repo.mock, reviewID, HardcodedUserID).mock))

\* ReviewHandler.UpdateReview: a log line and the 501 answer
UpdateReview(repo, reviewID) ==
    Handled("UpdateReview", reviewID, StatusNotImplemented, 0, repo)

\* ReviewHandler.DeleteReview: a log line and the 501 answer
DeleteReview(repo, reviewID) ==
    Handled("DeleteReview", reviewID, StatusNotImplemented, 0, repo)

\* the {reviewId} of the path: an id of a review made through CreateReview,
\* or of one made by another client of the repository
PathIds == ReviewIds \cup {NewUUID(r) : r \in Requests}

UpdateReviewRequest ==
    /\ \E id \in PathIds :
         LET h == UpdateReview(Repo(pgRows, Mock), id)
         IN  /\ stub' = StubAnswer(h)
             /\ pgRows' = h.repo.pg
             /\ SetMock(h.repo.mock)
    /\ UNCHANGED <<agg, rd, movieVars, backend, now, last, calls, req, lst>>

DeleteReviewRequest ==
    /\ \E id \in PathIds :
         LET h == DeleteReview(Repo(pgRows, Mock), id)
         IN  /\ stub' = StubAnswer(h)
             /\ pgRows' = h.repo.pg
             /\ SetMock(h.repo.mock)
    /\ UNCHANGED <<agg, rd, movieVars, backend, now, last, calls, req, lst>>

StubNext ==
    \/ UpdateReviewRequest
    \/ DeleteReviewRequest

(***************************************************************************)
(* ReviewHandler.GetMovieAggregatedRating                                   *)
(***************************************************************************)
\* the state of the handler: the movie of the path, what CheckMovieExists
\* returned (gate), the calls made to the Movie facade (checks) and to the
\* repository (reads), and the response
Aggregate(pc, movie, gate, checks, reads, status, resp) ==
    [pc |-> pc, movie |-> movie, gate |-> gate, checks |-> checks, reads |-> reads,
     status |-> status, resp |-> resp]

\* domain.AggregatedRating
AggregatedRating(movieID, average, count) ==
    [movie_id |-> movieID, average_rating |-> average, rating_count |-> count]
NoRating == AggregatedRating("", Quotient(0, 1), 0)

NoAggregate == Aggregate("idle", "", "", 0, 0, 0, NoRating)

\* AggregateAfterGate as it would be without the test of movieExists
AggregateAfterGateIgnoringExists(a, res) ==
    IF res.err # ErrNil
    THEN [a EXCEPT !.pc = "done", !.checks = @ + 1, !.gate = "error",
                   !.status = StatusInternalServerError]
    ELSE [a EXCEPT !.pc = "aggregate", !.checks = @ + 1,
                   !.gate = IF res.exists THEN "true" ELSE "false"]

\* GetMovieAggregatedRating after movieServiceClient.CheckMovieExists
\* returned res
AggregateAfterGate(a, res) ==
    IF res.err # ErrNil
    THEN [a EXCEPT !.pc = "done", !.checks = @ + 1, !.gate = "error",
                   !.status = StatusInternalServerError]
    ELSE IF ~res.exists
    THEN [a EXCEPT !.pc = "done", !.checks = @ + 1, !.gate = "false",
                   !.status = StatusNotFound]
    ELSE [a EXCEPT !.pc = "aggregate", !.checks = @ + 1, !.gate = "true"]

\* the request arrives and the handler calls CheckMovieExists
AggregateGate ==
    /\ agg.pc = "idle"
    /\ \E m \in Movies, rpc \in RpcOutcomes :
         agg' = AggregateAfterGate([agg EXCEPT !.movie = m], CheckMovieExists(m, rpc))
    /\ UNCHANGED <<rd, movieVars, stub, backend, storeVars, now, last, calls, req, lst>>

\* GetMovieAggregatedRating after store.GetAggregatedRatingByMovieID
\* returned res
AggregateAnswer(a, res) ==
    IF res.err # ErrNil
    THEN [a EXCEPT !.pc = "done", !.reads = @ + 1,
                   !.status = StatusInternalServerError]
    ELSE [a EXCEPT !.pc = "done", !.reads = @ + 1, !.status = StatusOK,
                   !.resp = AggregatedRating(a.movie, res.average, res.total)]

AggregatePg ==
    /\ agg.pc = "aggregate"
    /\ backend = "postgres"
    /\ \E res \in PgGetAggregatedRatingByMovieID(pgRows, agg.movie) :
         agg' = AggregateAnswer(agg, res)
    /\ UNCHANGED <<rd, movieVars, stub, backend, storeVars, now, last, calls, req, lst>>

AggregateMock ==
    /\ agg.pc = "aggregate"
    /\ backend = "mock"
    /\ agg' = AggregateAnswer(agg, MockGetAggregatedRatingByMovieID(Mock, agg.movie))
    /\ UNCHANGED <<rd, movieVars, stub, backend, storeVars, now, last, calls, req, lst>>

AggregateNext ==
    \/ AggregateGate
    \/ AggregatePg
    \/ AggregateMock

(***************************************************************************)
(* Specifications                                                          *)
(***************************************************************************)
\* the service starts on an empty repository, built on either implementation
Init ==
    /\ backend \in {"postgres", "mock"}
    /\ pgRows = {}
    /\ reviews = NewMockReviewStore.reviews
    /\ reviewsByMovie = NewMockReviewStore.reviewsByMovie
    /\ nextReviewIdx = NewMockReviewStore.nextReviewIdx
    /\ now = 0
    /\ last = NoCall
    /\ calls = 0
    /\ req = [r \in Requests |-> Idle]
    /\ lst = NoListing
    /\ agg = NoAggregate
    /\ rd = NoRead
    /\ movies = EmptyMap
    /\ chk = NoCheck
    /\ stub = NoStub

\* the repository under direct calls of its clients
SpecStore == Init /\ [][StoreNext]_vars

\* the REST surface: concurrent CreateReview requests
RestNext == CreateNext
SpecRest == Init /\ [][RestNext]_vars

\* a listing request running while clients write to the repository
Writers ==
    \/ PgCreateCall
    \/ PgDeleteCall
    \/ MockCreateCall
    \/ MockDeleteCall
ListingNext ==
    \/ calls < MaxRacing /\ Writers
    \/ ListNext
SpecList == Init /\ [][ListingNext]_vars

\* a listing request of either kind running while clients write
ListsNext ==
    \/ calls < MaxRacing /\ Writers
    \/ ListNext
    \/ UserListNext
SpecLists == Init /\ [][ListsNext]_vars

\* a listing request of either kind, with any query, on a repository that
\* a client wrote to once at most
QueryNext ==
    \/ calls = 0 /\ Writers
    \/ WideListFetchMock
    \/ WideListCountPg
    \/ ListSelectPg
    \/ ListEnrich
    \/ ListRespond
    \/ WideUserListFetchMock
    \/ WideUserListCountPg
    \/ UserListSelectPg
    \/ UserListEnrich
    \/ UserListRespond
SpecQuery == Init /\ [][QueryNext]_vars

\* an aggregate-rating request running while clients write to the repository
RatingNext ==
    \/ calls < MaxRacing /\ StoreNext
    \/ AggregateNext
SpecRating == Init /\ [][RatingNext]_vars

\* the read requests of the REST surface, one of each kind at most, on a
\* repository that a client wrote to once at most
ReadersNext ==
    \/ calls = 0 /\ StoreNext
    \/ ListNext
    \/ UserListNext
    \/ AggregateNext
SpecReaders == Init /\ [][ReadersNext]_vars

\* one CreateReview request and one read request (a listing or an
\* aggregate rating), each in its own goroutine; a handler whose call has
\* returned goes on to its next step
ServingNext ==
    \/ CreateSteps(1)
    \/ agg.pc = "idle" /\ ListNext
    \/ agg.pc = "idle" /\ UserListNext
    \/ lst.pc = "idle" /\ AggregateNext
SpecServing ==
    /\ Init /\ [][ServingNext]_vars
    /\ WF_vars(CreateSteps(1))
    /\ WF_vars(agg.pc = "idle" /\ ListNext)
    /\ WF_vars(agg.pc = "idle" /\ UserListNext)
    /\ WF_vars(lst.pc = "idle" /\ AggregateNext)

\* the movie service with its clients, and one CreateReview request whose
\* gate the movie service answers
GatedNext ==
    \/ MovieServiceNext
    \/ CreateReceive(1)
    \/ CreateGateServed(1)
    \/ CreatePersistPg(1)
    \/ CreatePersistMock(1)
SpecGated == Init /\ [][GatedNext]_vars

\* concurrent CreateReview requests while a client of the repository
\* deletes reviews
CreateDeleteNext ==
    \/ CreateNext
    \/ calls < MaxRacing /\ (PgDeleteCall \/ MockDeleteCall)
SpecCreateDelete == Init /\ [][CreateDeleteNext]_vars

\* every route of NewReviewRouter: a CreateReview request, one read request
\* at a time, and UpdateReview / DeleteReview requests
RoutesNext ==
    \/ CreateSteps(1)
    \/ agg.pc = "idle" /\ ListNext
    \/ agg.pc = "idle" /\ UserListNext
    \/ lst.pc = "idle" /\ AggregateNext
    \/ StubNext
SpecRoutes == Init /\ [][RoutesNext]_vars

\* one client of the repository: it writes, then makes a read call
ReadingNext ==
    \/ rd.op = "none" /\ calls < MaxRacing /\ StoreNext
    \/ rd.op = "none" /\ ReadNext
SpecRead == Init /\ [][ReadingNext]_vars

\* one CreateReview request running while other clients create reviews
MixedNext ==
    \/ calls < MaxRacing /\ (PgCreateCall \/ MockCreateCall)
    \/ CreateSteps(1)
SpecMixed == Init /\ [][MixedNext]_vars

(***************************************************************************)
(* Properties                                                              *)
(***************************************************************************)
\* request r has answered
Done(r) == req[r].pc = "done"

\* request r called store.Create and the database decided its INSERT (it
\* added the row or named a broken constraint)
Inserted(r) == Done(r) /\ req[r].creates = 1 /\ req[r].sqlerr # "other"

\* requests a and b are for the same (movie, user) pair: the user is the
\* same for every request
SamePair(a, b) == req[a].body.movie_id = req[b].body.movie_id

\* the seven persisted fields of a review
Persisted(review) == Row(review)

\* C1: two CreateReview requests for the same (movie, user) pair against the
\* PostgreSQL repository never both succeed; and when both had their INSERT
\* decided by the database, and the pair's row is not one a third writer
\* put there, exactly one ends with 201 and the other with 409, whatever
\* the interleaving of their steps.
C1_ExactlyOneOfTwoCreates ==
    backend = "postgres" =>
        \A a, b \in Requests :
            (a # b /\ SamePair(a, b)) =>
                /\ ~(req[a].status = StatusCreated /\ req[b].status = StatusCreated)
                /\ (/\ Inserted(a) /\ Inserted(b)
                    /\ \A x \in pgRows :
                          (x.movie_id = req[a].body.movie_id /\ x.user_id = HardcodedUserID)
                              => x.id \in {NewUUID(a), NewUUID(b)})
                   => {req[a].status, req[b].status} = {StatusCreated, StatusConflict}

C1_Witness ==
    /\ backend = "postgres"
    /\ \E a, b \in Requests :
          /\ a # b /\ SamePair(a, b) /\ Inserted(a) /\ Inserted(b)
          /\ req[a].status = StatusCreated /\ req[b].status = StatusConflict

\* C2: in every reachable state of the review repository (either
\* implementation) there is at most one review per (movie, user) pair.
C2_OneReviewPerPair ==
    \A x, y \in StoredReviews :
        (x.movie_id = y.movie_id /\ x.user_id = y.user_id) => x.id = y.id

\* the same for the PostgreSQL implementation alone
PgOneRowPerPair ==
    \A x, y \in pgRows :
        (x.movie_id = y.movie_id /\ x.user_id = y.user_id) => x = y

\* C3: a Create call on the in-memory repository for a (movie, user) pair
\* that already has a review, with an id the repository does not hold, fails
\* with ErrDuplicateReview and changes nothing.
C3_MockCreateRejectsDuplicate ==
    [][(/\ backend = "mock"
        /\ calls' = calls + 1
        /\ last'.op = "Create"
        /\ last'.id \notin DOMAIN reviews
        /\ \E i \in DOMAIN reviews :
              /\ reviews[i].movie_id = last'.movie_id
              /\ reviews[i].user_id = last'.user_id)
       => (last'.err = ErrDuplicateReview /\ UNCHANGED storeVars)]_vars

\* C4: every rating from 1 to 10 passes the validation; a request with
\* rating 0 or 11 ends with 400 without any call to CheckMovieExists or to
\* store.Create.
C4_RatingBounds ==
    /\ \A rt \in MinRating..MaxRating : ValidRating(rt)
    /\ \A r \in Requests :
          (req[r].pc # "idle" /\ req[r].body.decoded) =>
              /\ (/\ req[r].body.rating \in MinRating..MaxRating
                  /\ ValidMovieID(req[r].body.movie_id)
                  /\ ValidComment(req[r].body.comment))
                 => (req[r].status # StatusBadRequest /\ req[r].pc \in {"gate", "persist", "done"}
                     /\ (Done(r) => req[r].checks = 1))
              /\ req[r].body.rating \in {MinRating - 1, MaxRating + 1}
                 => (/\ Done(r) /\ req[r].status = StatusBadRequest
                     /\ req[r].checks = 0 /\ req[r].creates = 0)

C4_Witness ==
    \E a, b \in Requests :
        /\ req[a].body.decoded /\ req[a].body.rating = MaxRating + 1
        /\ ValidMovieID(req[a].body.movie_id) /\ ValidComment(req[a].body.comment)
        /\ Done(a) /\ req[a].status = StatusBadRequest
        /\ req[b].body.decoded /\ req[b].body.rating = MaxRating
        /\ req[b].pc = "persist"

\* C5: when CheckMovieExists answered (false, nil), the request ends with
\* 404, has never called store.Create, and no review of it is stored.
C5_AbsentMovieNotFound ==
    \A r \in Requests :
        req[r].gate = "false" =>
            /\ Done(r) /\ req[r].status = StatusNotFound
            /\ req[r].creates = 0
            /\ \A x \in StoredReviews : x.id # NewUUID(r)

C5_Witness ==
    \E a, b \in Requests :
        /\ req[a].gate = "false" /\ req[a].status = StatusNotFound
        /\ SamePair(a, b) /\ req[b].status = StatusCreated

\* the statuses of the 502 class: bad gateway, unavailable, gateway timeout
DependencyStatuses == {502, 503, 504}

\* C6: when CheckMovieExists failed, the request ends with a status of the
\* 502 class, which is not the status of a storage failure, and store.Create
\* is never called.
C6_GateFailureIsDependencyError ==
    \A r \in Requests :
        req[r].gate = "error" =>
            /\ Done(r) /\ req[r].status \in DependencyStatuses
            /\ req[r].status # CreateStatus(ErrStorage)
            /\ req[r].creates = 0

\* C7: a request makes at most one call to CheckMovieExists and at most one
\* to store.Create; when store.Create returned ErrDuplicateReview the
\* request is over, with 409.
C7_DuplicateIsConflictNoRetry ==
    \A r \in Requests :
        /\ req[r].checks <= 1
        /\ req[r].creates <= 1
        /\ req[r].err = ErrDuplicateReview
              => (Done(r) /\ req[r].status = StatusConflict)

C7_Witness ==
    \E r \in Requests :
        /\ req[r].err = ErrDuplicateReview /\ req[r].status = StatusConflict
        /\ req[r].checks = 1 /\ req[r].creates = 1

\* C8: PostgresReviewStore.Create returns ErrDuplicateReview exactly when
\* the database names constraint uq_user_movie_review, and nil only when the
\* INSERT succeeded; CreateReview answers 201 only to nil, 409 only to
\* ErrDuplicateReview, and 500 to every other error of store.Create.
C8_OtherStoreErrorsAre5xx ==
    /\ (backend = "postgres" /\ last.op = "Create") =>
          /\ last.err = ErrDuplicateReview <=> last.sqlerr = "uq_user_movie_review"
          /\ last.err = ErrNil <=> last.sqlerr = ""
    /\ \A r \in Requests :
          (Done(r) /\ req[r].creates = 1) =>
              /\ backend = "postgres" =>
                    /\ req[r].err = ErrDuplicateReview
                          <=> req[r].sqlerr = "uq_user_movie_review"
                    /\ req[r].err = ErrNil <=> req[r].sqlerr = ""
              /\ req[r].status = StatusCreated <=> req[r].err = ErrNil
              /\ req[r].status = StatusConflict <=> req[r].err = ErrDuplicateReview
              /\ req[r].err \notin {ErrNil, ErrDuplicateReview}
                    => req[r].status = StatusInternalServerError

C8_Witness ==
    /\ backend = "postgres"
    /\ last.op = "Create" /\ last.sqlerr = "reviews_pkey" /\ last.err = ErrUniqueOther
    /\ \E r \in Requests :
          /\ Done(r) /\ req[r].creates = 1 /\ req[r].err = ErrStorage
          /\ req[r].status = StatusInternalServerError

\* C9: the review of a 201 response is the stored one: the repository holds
\* a review with its id whose seven persisted fields equal the response's,
\* and the response's username and movie title are empty.
C9_ResponseIsPersistedReview ==
    \A r \in Requests :
        req[r].status = StatusCreated =>
            /\ req[r].resp.id = NewUUID(r)
            /\ \E x \in StoredReviews : Persisted(x) = Persisted(req[r].resp)
            /\ \A x \in StoredReviews :
                  x.id = req[r].resp.id => Persisted(x) = Persisted(req[r].resp)
            /\ req[r].resp.movie_id = req[r].body.movie_id
            /\ req[r].resp.user_id = HardcodedUserID
            /\ req[r].resp.rating = req[r].body.rating
            /\ req[r].resp.comment = req[r].body.comment
            /\ req[r].resp.username = "" /\ req[r].resp.movie_title = ""

\* C10: in the listing of a movie's reviews the lookups never end the
\* request: every copy appended carries the persisted fields of its row, in
\* the row's place, with the username empty if GetUser failed and the title
\* empty if GetMovieInfo failed; the request ends with 500 only when the
\* repository failed (no lookup made), and otherwise with 200 and one copy
\* per row of the page.
C10_EnrichmentDegrades ==
    /\ Len(lst.out) <= Len(lst.rows)
    /\ Len(lst.userFailed) = Len(lst.out) /\ Len(lst.movieFailed) = Len(lst.out)
    /\ \A i \in 1..Len(lst.out) :
          /\ Persisted(lst.out[i]) = Persisted(lst.rows[i])
          /\ lst.userFailed[i] => lst.out[i].username = ""
          /\ lst.movieFailed[i] => lst.out[i].movie_title = ""
          /\ ~lst.userFailed[i] => lst.out[i].username = UsernameOf(lst.rows[i].user_id)
          /\ ~lst.movieFailed[i] => lst.out[i].movie_title = TitleOf(lst.rows[i].movie_id)
    /\ lst.pc = "done" =>
          /\ lst.status \in {StatusOK, StatusInternalServerError}
          /\ lst.status = StatusInternalServerError => Len(lst.userFailed) = 0
          /\ lst.status = StatusOK => Len(lst.out) = Len(lst.rows)

C10_Witness ==
    /\ lst.pc = "done" /\ lst.status = StatusOK
    /\ Len(lst.rows) = 2 /\ Len(lst.out) = 2
    /\ lst.userFailed = <<TRUE, FALSE>>
    /\ lst.movieFailed = <<FALSE, TRUE>>

\* the listing request in lst is one of a user's reviews
IsUserListing == "kind" \in DOMAIN lst

\* the review ids of a sequence of reviews, in order
IdsOf(seq) == [i \in DOMAIN seq |-> seq[i].id]

\* C11: in the listing of a user's reviews a failure of GetUser for the
\* target user never aborts the request: it ends with success (200).
C11_UserLookupFailureDegrades ==
    (IsUserListing /\ lst.lookup = "failed" /\ lst.pc = "done")
        => lst.status = StatusOK

\* C12: in both listing handlers the copies appended so far carry the review
\* ids of the first rows of the repository's page, in the page's order, and
\* a 200 response has exactly the ids of the page, in its order, whichever
\* lookups failed.
C12_ResponseKeepsPageOrder ==
    /\ lst.pc \in {"enrich", "userenrich"} =>
          /\ Len(lst.out) <= Len(lst.rows)
          /\ IdsOf(lst.out) = IdsOf(SubSeq(lst.rows, 1, Len(lst.out)))
    /\ (lst.pc = "done" /\ lst.status = StatusOK) =>
          IdsOf(lst.out) = IdsOf(lst.rows)

C12_Witness ==
    /\ IsUserListing
    /\ lst.pc = "done" /\ lst.status = StatusOK
    /\ Len(lst.rows) = 2 /\ lst.rows[1].id # lst.rows[2].id
    /\ lst.movieFailed = <<TRUE, FALSE>>

\* the reviews the repository holds for the key of a listing or aggregate
\* call: a movie's, or a user's
StoredFor(op, key) ==
    IF op = "ListByUser" THEN {x \in StoredReviews : x.user_id = key}
    ELSE {x \in StoredReviews : x.movie_id = key}

\* the offset of a page, as the integer (page-1) * pageSize
OffsetOf(params) == (params.Page - 1) * params.PageSize

\* the read call answered: the storage itself did not fail
Answered == rd.op # "none" /\ rd.res.err \notin {ErrListStorage, ErrAggregateStorage}

\* the sort order of the listing contract: must review a come before b
ComesFirst(a, b, sortKey) ==
    CASE sortKey = "rating_desc" ->
            a.rating > b.rating \/ (a.rating = b.rating /\ a.created_at > b.created_at)
      [] sortKey = "rating_asc" ->
            a.rating < b.rating \/ (a.rating = b.rating /\ a.created_at > b.created_at)
      [] OTHER -> a.created_at > b.created_at

SortedBy(seq, sortKey) ==
    \A i, j \in DOMAIN seq : i < j => ~ComesFirst(seq[j], seq[i], sortKey)

\* C13: a listing of a movie's reviews for a page >= 1 and a page size in
\* 1..50 whose offset is at or past the number of reviews stored for the
\* movie returns no error, an empty list, and totalCount equal to that
\* number.
C13_PagePastEndIsEmpty ==
    (/\ rd.op = "ListByMovie" /\ Answered
     /\ rd.params.Page >= 1 /\ rd.params.PageSize \in 1..MaxPageSize
     /\ OffsetOf(rd.params) >= Cardinality(StoredFor(rd.op, rd.key)))
        => /\ ~rd.res.panic
           /\ rd.res.err = ErrNil
           /\ rd.res.reviews = <<>>
           /\ rd.res.total = Cardinality(StoredFor(rd.op, rd.key))

\* C14: a listing by movie or by user returns the rows of one page: as many
\* as the sorted matching reviews have from position (page-1)*pageSize on,
\* at most pageSize, with totalCount the number of all matching reviews
\* (pages whose offset fits Go's int).
C14_ListsReturnOnePage ==
    (/\ rd.op \in {"ListByMovie", "ListByUser"} /\ Answered
     /\ OffsetOf(rd.params) <= MaxInt)
        => LET n == Cardinality(StoredFor(rd.op, rd.key))
               rest == IF n > OffsetOf(rd.params) THEN n - OffsetOf(rd.params) ELSE 0
           IN  /\ ~rd.res.panic /\ rd.res.err = ErrNil
               /\ Len(rd.res.reviews) <= rd.params.PageSize
               /\ Len(rd.res.reviews) = Min(rd.params.PageSize, rest)
               /\ rd.res.total = n

\* C15: the rows of a listing by movie come in the order of the sort key:
\* creation time descending, or rating descending / ascending with equal
\* ratings by creation time descending.
C15_ListByMovieSorted ==
    (rd.op = "ListByMovie" /\ Answered /\ rd.res.err = ErrNil /\ ~rd.res.panic)
        => SortedBy(rd.res.reviews, rd.params.SortBy)

\* C16: the rows of a listing by user on PostgreSQL come in the order of
\* the sort key, as for a listing by movie; with rating_asc in ascending
\* rating order.
C16_ListByUserSorted ==
    (backend = "postgres" /\ rd.op = "ListByUser" /\ Answered /\ rd.res.err = ErrNil)
        => SortedBy(rd.res.reviews, rd.params.SortBy)

\* C18: aggregate(movie) returns the number of reviews stored for the movie
\* and the sum of their ratings divided by that number, 0 and 0 when there
\* are none, after any creates, updates and deletes, on either repository.
C18_AggregateMatchesStored ==
    (rd.op = "Aggregate" /\ Answered)
        => LET mine == StoredFor(rd.op, rd.key)
               n == Cardinality(mine)
           IN  /\ rd.res.total = n
               /\ rd.res.average = IF n = 0 THEN Quotient(0, 1)
                                   ELSE Quotient(SumRatings(mine), n)

\* C20: an Update call for an id the repository holds, made for a user who
\* is not the owner of that review, fails with ErrReviewNotFound (or with a
\* failure of the storage itself) and changes nothing, on either repository.
C20_UpdateChecksOwner ==
    [][(/\ calls' = calls + 1
        /\ last'.op = "Update"
        /\ \E x \in StoredReviews : x.id = last'.id /\ x.user_id # last'.user_id)
       => (/\ last'.err \in {ErrReviewNotFound, ErrStorage}
           /\ UNCHANGED storeVars)]_vars

\* the same for the PostgreSQL implementation alone
PgUpdateChecksOwner ==
    [][(/\ backend = "postgres"
        /\ calls' = calls + 1
        /\ last'.op = "Update"
        /\ \E x \in StoredReviews : x.id = last'.id /\ x.user_id # last'.user_id)
       => (/\ last'.err \in {ErrReviewNotFound, ErrStorage}
           /\ UNCHANGED storeVars)]_vars

\* the handler got as far as building params from the query
ParamsBuilt == lst.pc # "idle" /\ (IsUserListing => lst.lookup = "ok")

\* a query value that is absent, no number, zero or negative
Invalid(q) == ~q.num \/ q.n <= 0

\* C17: whatever the page and limit query values of a listing request are,
\* the params handed to the repository and echoed in the response have
\* Page >= 1, and 1 when the value is absent or invalid; PageSize within
\* 1..50, 10 when the value is absent or invalid and 50 when it is above 50.
C17_ParamsNormalised ==
    ParamsBuilt =>
        /\ lst.params.Page >= 1
        /\ Invalid(lst.query.page) => lst.params.Page = 1
        /\ lst.params.PageSize \in 1..MaxPageSize
        /\ Invalid(lst.query.limit) => lst.params.PageSize = DefaultPageSize
        /\ (lst.query.limit.num /\ lst.query.limit.n > MaxPageSize)
               => lst.params.PageSize = MaxPageSize

\* a user listing answered for ?page=-1&limit=<a number beyond Go's int>
C17_Witness ==
    /\ IsUserListing /\ lst.pc = "done" /\ lst.status = StatusOK
    /\ lst.query.page = Query(TRUE, -1)
    /\ lst.query.limit = Query(TRUE, MaxInt + 1)
    /\ lst.params = Params(1, MaxPageSize, "")

\* C19: the aggregate-rating request reads the repository only after
\* CheckMovieExists returned true; when it returned false the request ends
\* with 404, when the call failed the request fails (500), and in neither
\* case the repository is called.
C19_AggregateGated ==
    /\ agg.reads > 0 => agg.gate = "true" /\ agg.checks = 1
    /\ agg.pc = "aggregate" => agg.gate = "true"
    /\ agg.gate = "false"
         => agg.pc = "done" /\ agg.status = StatusNotFound /\ agg.reads = 0
    /\ agg.gate = "error"
         => agg.pc = "done" /\ agg.status = StatusInternalServerError /\ agg.reads = 0
    /\ (agg.pc = "done" /\ agg.status = StatusOK)
         => agg.gate = "true" /\ agg.reads = 1

\* the movie service denies a movie the repository holds a review of: 404,
\* and no call to the repository
C19_Witness ==
    /\ agg.pc = "done" /\ agg.gate = "false" /\ agg.status = StatusNotFound
    /\ agg.reads = 0
    /\ \E x \in StoredReviews : x.movie_id = agg.movie

\* a direct repository call of operation op was just made for a review the
\* repository holds, on behalf of a user who does not own it
ByStranger(op) ==
    /\ calls' = calls + 1
    /\ last'.op = op
    /\ \E x \in StoredReviews : x.id = last'.id /\ x.user_id # last'.user_id

\* C21: a Delete call for an id the repository holds, made for a user who
\* is not the owner of that review, fails with ErrReviewNotFound (or with a
\* failure of the storage itself) and leaves the rows and the bookkeeping of
\* the repository unchanged, on either repository.
C21_DeleteChecksOwner ==
    [][ByStranger("Delete")
         => (/\ last'.err \in {ErrReviewNotFound, ErrStorage}
             /\ UNCHANGED storeVars)]_vars

\* the same for the PostgreSQL implementation alone
PgDeleteChecksOwner ==
    [][(backend = "postgres" /\ ByStranger("Delete"))
         => (/\ last'.err \in {ErrReviewNotFound, ErrStorage}
             /\ UNCHANGED storeVars)]_vars

\* review y is review x with, at most, another rating, comment and
\* modification time
SameButContent(x, y) ==
    /\ y.id = x.id /\ y.movie_id = x.movie_id /\ y.user_id = x.user_id
    /\ y.created_at = x.created_at

\* the step changes one stored review, in its rating, comment and
\* modification time at most, and no other
UpdatesInPlace ==
    \E x \in StoredReviews : \E y \in StoredReviews' :
        /\ x.id = last'.id
        /\ SameButContent(x, y)
        /\ StoredReviews' \ {y} = StoredReviews \ {x}

\* C22: an Update call that returns nil leaves the id, movie, user and
\* creation time of the review it matched as they were, and every other
\* review unchanged, on either repository.
C22_UpdateFrame ==
    [][(calls' = calls + 1 /\ last'.op = "Update" /\ last'.err = ErrNil)
         => UpdatesInPlace]_vars

\* the same for the PostgreSQL implementation alone
PgUpdateFrame ==
    [][(backend = "postgres" /\ calls' = calls + 1 /\ last'.op = "Update"
        /\ last'.err = ErrNil)
         => UpdatesInPlace]_vars

\* the reviews the by-movie index of the mock holds
IndexedByMovie ==
    UNION {{reviewsByMovie[m][i] : i \in 1..Len(reviewsByMovie[m])} :
              m \in DOMAIN reviewsByMovie}

\* the (movie, user) pairs the duplicate bookkeeping of the mock holds
IndexedPairs ==
    UNION {{<<m, u>> : u \in nextReviewIdx[m]} : m \in DOMAIN nextReviewIdx}

\* C30: in MockReviewStore the by-movie index holds exactly the reviews of
\* the by-id map, each once, under its movie and with the same field
\* values, and nextReviewIdx holds exactly the (movie, user) pairs of the
\* stored reviews.
C30_MockIndicesAgree ==
    backend = "mock" =>
        /\ IndexedByMovie = {reviews[i] : i \in DOMAIN reviews}
        /\ \A m \in DOMAIN reviewsByMovie :
              /\ \A i \in 1..Len(reviewsByMovie[m]) : reviewsByMovie[m][i].movie_id = m
              /\ \A i, j \in 1..Len(reviewsByMovie[m]) :
                    reviewsByMovie[m][i].id = reviewsByMovie[m][j].id => i = j
        /\ IndexedPairs = {<<reviews[i].movie_id, reviews[i].user_id>> : i \in DOMAIN reviews}

\* the listing handler holds the (rows, totalCount) the repository returned
Fetched ==
    \/ lst.pc \in {"enrich", "userenrich"}
    \/ lst.pc = "done" /\ lst.status = StatusOK

\* the number of rows of page params of a set of n reviews
PageLen(n, params) ==
    LET rest == IF n > OffsetOf(params) THEN n - OffsetOf(params) ELSE 0
    IN  Min(params.PageSize, rest)

\* C23: the rows and the totalCount a PostgreSQL listing returns while
\* creates and deletes are committed come from one repository state: the
\* page has as many rows as that page of a set of totalCount reviews has
\* (never totalCount = 1 with an empty first page).
C23_ListingFromOneState ==
    (backend = "postgres" /\ Fetched)
        => Len(lst.rows) = PageLen(lst.total, lst.params)

\* the same for the in-memory repository listing a movie's reviews
MockListingFromOneState ==
    (backend = "mock" /\ Fetched /\ ~IsUserListing)
        => Len(lst.rows) = PageLen(lst.total, lst.params)

\* the display fields of review x are empty
NoDisplayFields(x) == x.username = "" /\ x.movie_title = ""

\* C24: the listing and aggregate-rating requests leave the repository as
\* it is: no step of theirs changes a row or an index, and every stored
\* review (in the mock, of either index) has an empty username and an empty
\* movie title at all times.
C24_ReadsLeaveRepository ==
    /\ [](/\ \A x \in StoredReviews : NoDisplayFields(x)
          /\ \A x \in IndexedByMovie : NoDisplayFields(x))
    /\ [][(lst' # lst \/ agg' # agg) => UNCHANGED storeVars]_vars

\* a listing answered with a review whose username and title were resolved,
\* on the in-memory repository
C24_Witness ==
    /\ backend = "mock"
    /\ lst.pc = "done" /\ lst.status = StatusOK
    /\ \E i \in DOMAIN lst.out :
          /\ lst.out[i].username # "" /\ lst.out[i].movie_title # ""
          /\ lst.out[i].id \in DOMAIN reviews

\* handler state h has received its request / has written its response
Started(h) == h.pc # "idle"
Responded(h) == h.status # 0

\* C25: a create, listing or aggregate-rating request whose remote and
\* storage calls all return is answered eventually, and once its response is
\* written the handler does nothing more: no further call, no second
\* response.
C25_RequestsComplete ==
    /\ Started(req[1]) ~> Responded(req[1])
    /\ Started(lst) ~> Responded(lst)
    /\ Started(agg) ~> Responded(agg)
    /\ [][/\ Responded(req[1]) => req'[1] = req[1]
          /\ Responded(lst) => lst' = lst
          /\ Responded(agg) => agg' = agg]_vars

\* a create answered 201 and a listing answered with the review created
C25_Witness ==
    /\ req[1].pc = "done" /\ req[1].status = StatusCreated /\ req[1].creates = 1
    /\ lst.pc = "done" /\ lst.status = StatusOK /\ Len(lst.out) = 1

\* C26: for every page and limit a client sends, the offset the repository
\* computes in Go's int from the params built, (Page-1)*PageSize, is the
\* product itself and is not negative.
C26_OffsetIsProduct ==
    ParamsBuilt =>
        /\ WrapInt(OffsetOf(lst.params)) = OffsetOf(lst.params)
        /\ WrapInt(OffsetOf(lst.params)) >= 0

\* the same for the pages below the largest int
SmallPageOffsetIsProduct ==
    (ParamsBuilt /\ lst.params.Page < MaxInt) =>
        /\ WrapInt(OffsetOf(lst.params)) = OffsetOf(lst.params)
        /\ WrapInt(OffsetOf(lst.params)) >= 0

\* C29: a CheckMovieExists call the movie service serves for a movie id
\* answers exists = true exactly when table movies holds a row with the id
\* and the query succeeded, whatever the row's status; exists = false
\* exactly when the query succeeded and found no row; and an error, not
\* exists = false, when the query failed.
C29_ExistsIgnoresStatus ==
    (chk.served /\ chk.id # "") =>
        /\ (chk.resp.code = "OK" /\ chk.resp.exists)
              <=> (~chk.queryFails /\ chk.stored \in MovieStatuses)
        /\ (chk.resp.code = "OK" /\ ~chk.resp.exists)
              <=> (~chk.queryFails /\ chk.stored = "absent")
        /\ chk.queryFails => chk.resp.code = "Internal"

\* a review created, through the gate, for a movie that is pending approval
C29_Witness ==
    /\ req[1].pc = "done" /\ req[1].status = StatusCreated /\ req[1].gate = "true"
    /\ chk.served /\ chk.id = req[1].body.movie_id
    /\ chk.stored = StatusPendingApproval /\ chk.resp.exists

\* the ids CreateReview gives its reviews
RestIds == {NewUUID(r) : r \in Requests}

\* C28: every review created through CreateReview has the hardcoded user id,
\* whichever request created it; and on PostgreSQL, a CreateReview request
\* whose store.Create runs while the repository holds a review of its movie
\* by that user is not answered 201: it is answered 409 whenever the
\* database decided the INSERT (500 when the storage failed).
C28_OneReviewPerMovieViaRest ==
    /\ [](\A x \in StoredReviews : x.id \in RestIds => x.user_id = HardcodedUserID)
    /\ [][\A r \in Requests :
            (/\ backend = "postgres"
             /\ req[r].pc = "persist" /\ req'[r].pc = "done"
             /\ \E x \in pgRows : x.movie_id = req[r].body.movie_id /\ x.id \in RestIds)
               => /\ req'[r].status \in {StatusConflict, StatusInternalServerError}
                  /\ req'[r].sqlerr # "other" => req'[r].status = StatusConflict]_vars

\* on PostgreSQL, one request answered 201 and the other, for the same
\* movie, 409, while the review of the first is stored
C28_Witness ==
    /\ backend = "postgres"
    /\ \E a, b \in Requests :
          /\ a # b /\ SamePair(a, b)
          /\ req[a].status = StatusCreated /\ req[b].status = StatusConflict
          /\ \E x \in pgRows : x.id = NewUUID(a) /\ x.user_id = HardcodedUserID
          /\ last.op = "Delete"

\* the second part of C28 on the in-memory repository
MockOneReviewPerMovieViaRest ==
    [][\A r \in Requests :
         (/\ backend = "mock"
          /\ req[r].pc = "persist" /\ req'[r].pc = "done"
          /\ \E x \in StoredReviews : x.movie_id = req[r].body.movie_id /\ x.id \in RestIds)
            => req'[r].status = StatusConflict]_vars

\* C27: every UpdateReview and DeleteReview request is answered 501 without
\* a call to the repository, and no step of a REST request changes or
\* removes a review the repository holds.
C27_StubsLeaveReviews ==
    /\ [](stub.op # "none" => stub.status = StatusNotImplemented /\ stub.storeCalls = 0)
    /\ [][StoredReviews \subseteq StoredReviews']_vars

\* a DeleteReview request for the review a CreateReview request made,
\* answered 501 with the review still stored
C27_Witness ==
    /\ stub.op = "DeleteReview" /\ stub.status = StatusNotImplemented
    /\ stub.id = NewUUID(1) /\ req[1].status = StatusCreated
    /\ \E x \in StoredReviews : x.id = stub.id

=============================================================================
